---- MODULE Spec2Model ----
(***************************************************************************)
(* Model of pyo3-stub-gen's aggregation and emission engine,               *)
(* src/pyo3-stub-gen/src/generate/stub_info.rs: StubInfoBuilder::build     *)
(* (filters, module table, identity merge, submodule registration) and     *)
(* StubInfo::generate (destination paths, sequential emission).            *)
(*                                                                         *)
(* A Rust String / PathBuf is a tuple of one-character strings, so that    *)
(* starts_with, split, join, replace and the BTreeMap key order are        *)
(* computed character by character.  Option<T> is a tuple of length 0      *)
(* (None) or 1 (Some).  A BTreeMap is a function whose DOMAIN is the key   *)
(* set; its iteration order is SortedKeys.                                 *)
(***************************************************************************)
EXTENDS Integers, Sequences, FiniteSets, TLC

VARIABLES
    modules,              \* StubInfoBuilder.modules / StubInfo.modules
    default_module_name,  \* StubInfoBuilder.default_module_name
    python_root,          \* StubInfoBuilder.python_root / StubInfo.python_root
    module_filter,        \* Option<String>
    rust_module_filters,  \* Option<Vec<String>>
    registry,             \* the inventory: one read-only list per descriptor kind
    pc,                   \* position of build()/generate()
    idx,                  \* position in the inventory list being iterated
    gidx,                 \* number of modules generate() has gone past
    files,                \* the disk: path -> what its file holds
    dirs,                 \* directories known to exist
    log,                  \* the log::info! records generate() has emitted
    result,               \* what generate() returned, "none" while it has not
    run,                  \* which aggregation run this is
    prev                  \* the module table the previous run returned

vars == <<modules, default_module_name, python_root, module_filter,
          rust_module_filters, registry, pc, idx, gidx, files, dirs, log,
          result, run, prev>>

(***************************************************************************)
(* Bounds                                                                  *)
(***************************************************************************)
MaxDesc == 3
MaxFilterDesc == 2

(***************************************************************************)
(* Strings                                                                 *)
(***************************************************************************)
None == <<>>
Some(x) == <<x>>

\* The byte value of a character (the order of String's Ord).
Byte(c) ==
    CASE c = "." -> 46 [] c = "/" -> 47 [] c = "_" -> 95
      [] c = "a" -> 97 [] c = "b" -> 98 [] c = "c" -> 99
      [] c = "i" -> 105 [] c = "m" -> 109 [] c = "n" -> 110
      [] c = "p" -> 112 [] c = "r" -> 114 [] c = "t" -> 116
      [] c = "x" -> 120 [] c = "y" -> 121 [] c = "z" -> 122

Min(a, b) == IF a < b THEN a ELSE b

\* String's Ord: bytewise lexicographic, a proper prefix is smaller.
StrLess(s, t) ==
    \E i \in 1..(Min(Len(s), Len(t)) + 1) :
        /\ \A j \in 1..(i - 1) : s[j] = t[j]
        /\ IF i > Len(s) THEN i <= Len(t)
           ELSE IF i > Len(t) THEN FALSE
           ELSE Byte(s[i]) < Byte(t[i])

RECURSIVE SortedSeq(_)
SortedSeq(S) ==
    IF S = {} THEN <<>>
    ELSE LET lo == CHOOSE x \in S : \A y \in S \ {x} : StrLess(x, y)
         IN <<lo>> \o SortedSeq(S \ {lo})

\* BTreeMap iteration order: ascending keys.
SortedKeys(m) == SortedSeq(DOMAIN m)

\* str::starts_with
starts_with(s, p) ==
    /\ Len(p) <= Len(s)
    /\ \A i \in 1..Len(p) : s[i] = p[i]

\* str::replace(".", "/")
replace_dots(s) == [i \in 1..Len(s) |-> IF s[i] = "." THEN "/" ELSE s[i]]

\* str::split('.') collected into a Vec
RECURSIVE split_dots(_)
split_dots(s) ==
    IF \A i \in 1..Len(s) : s[i] # "." THEN <<s>>
    ELSE LET d == CHOOSE i \in 1..Len(s) :
                      s[i] = "." /\ \A j \in 1..(i - 1) : s[j] # "."
         IN <<SubSeq(s, 1, d - 1)>> \o split_dots(SubSeq(s, d + 1, Len(s)))

\* [&str]::join(".")
RECURSIVE join_dots(_)
join_dots(path) ==
    IF Len(path) = 0 THEN <<>>
    ELSE IF Len(path) = 1 THEN path[1]
    ELSE path[1] \o <<".">> \o join_dots(Tail(path))

\* Path::join: an absolute argument replaces the base, otherwise it is
\* appended after a separator (none after an empty base or a trailing one).
path_join(base, p) ==
    IF Len(p) > 0 /\ p[1] = "/" THEN p
    ELSE IF Len(base) = 0 \/ base[Len(base)] = "/" THEN base \o p
    ELSE base \o <<"/">> \o p

\* Path::parent: the path without its last component; None for "" and "/".
path_parent(p) ==
    IF Len(p) = 0 \/ p = <<"/">> THEN None
    ELSE IF \A i \in 1..Len(p) : p[i] # "/" THEN Some(<<>>)
    ELSE LET d == CHOOSE i \in 1..Len(p) :
                      p[i] = "/" /\ \A j \in (i + 1)..Len(p) : p[j] # "/"
         IN Some(IF d = 1 THEN <<"/">> ELSE SubSeq(p, 1, d - 1))

\* A directory and all its ancestors (what create_dir_all leaves existing).
RECURSIVE dir_and_ancestors(_)
dir_and_ancestors(d) ==
    IF Len(d) = 0 THEN {}
    ELSE LET up == path_parent(d)
         IN {d} \cup (IF up = None THEN {} ELSE dir_and_ancestors(up[1]))

PYI == <<".", "p", "y", "i">>
INIT_PYI == <<"_", "_", "i", "n", "i", "t", "_", "_">> \o PYI

(***************************************************************************)
(* Namespaces and origin paths used by the descriptor universes.           *)
(* Namespaces are well-formed dotted module names.                         *)
(***************************************************************************)
N_a      == <<"a">>
N_ab     == <<"a", "b">>
N_a_b    == <<"a", ".", "b">>
N_a_bc   == <<"a", ".", "b", "c">>
N_a_c    == <<"a", ".", "c">>
N_a_b_c  == <<"a", ".", "b", ".", "c">>
N_a_init == <<"a", ".", "_", "_", "i", "n", "i", "t", "_", "_">>
O_x_m    == <<"x", ".", "m">>
O_y_m    == <<"y", ".", "m">>
O_z_m    == <<"z", ".", "m">>
F_x      == <<"x", ".">>
F_y      == <<"y", ".">>
ROOT     == <<"r">>

(***************************************************************************)
(* Data model                                                              *)
(***************************************************************************)
\* BTreeMap::insert: a present key's value is overwritten.
Put(m, k, v) == [x \in (DOMAIN m) \cup {k} |-> IF x = k THEN v ELSE m[x]]

\* Module::default(): empty name, no members, no submodules.
ModuleDefault ==
    [name |-> <<>>, default_module_name |-> <<>>, class |-> <<>>,
     enum_ |-> <<>>, function |-> <<>>, error |-> <<>>, variables |-> <<>>,
     submodules |-> {}]

\* MemberDef { name, type, doc, default } built from a MemberInfo
MemberDefOf(member) == [name |-> member.name, type |-> member.r_type]

\* ClassDef::from(&PyClassInfo) and ClassDef::from(&PyComplexEnumInfo): the
\* descriptor's name and its base members, no attrs or methods yet.
ClassDefFrom(info) ==
    [name |-> info.pyclass_name, attrs |-> <<>>,
     getters |-> [i \in 1..Len(info.getters) |-> MemberDefOf(info.getters[i])],
     setters |-> <<>>, methods |-> <<>>]

\* EnumDef::from(&PyEnumInfo)
EnumDefFrom(info) ==
    [name |-> info.pyclass_name, attrs |-> <<>>, getters |-> <<>>,
     setters |-> <<>>, methods |-> <<>>]

\* FunctionDef::from, ErrorDef::from, VariableDef::from
FunctionDefFrom(info) == [name |-> info.name]
ErrorDefFrom(info) == [name |-> info.name]
VariableDefFrom(info) == [name |-> info.name]

\* MethodDef::from(&MethodInfo)
MethodDefFrom(method) == [name |-> method.name]

\* One push per entry, in the slice's order.
member_defs(members) == [i \in 1..Len(members) |-> MemberDefOf(members[i])]
method_defs(methods) == [i \in 1..Len(methods) |-> MethodDefFrom(methods[i])]

(***************************************************************************)
(* StubInfoBuilder                                                         *)
(***************************************************************************)
\* name.unwrap_or(&self.default_module_name)
unwrap_or_default(name) == IF name = None THEN default_module_name ELSE name[1]

\* get_module: the table with the named Module present, its name and
\* default_module_name (re)set.
get_module(mods, name) ==
    LET n == unwrap_or_default(name)
        module == IF n \in DOMAIN mods THEN mods[n] ELSE ModuleDefault
    IN Put(mods, n, [module EXCEPT !.name = n,
                                   !.default_module_name = default_module_name])

\* Mutant: the filter matched on whole dot-delimited segments.
should_include_module_segments(module) ==
    IF module_filter = None THEN TRUE
    ELSE LET name == unwrap_or_default(module)
             filter == module_filter[1]
         IN /\ starts_with(name, filter)
            /\ Len(name) = Len(filter) \/ name[Len(filter) + 1] = "."

should_include_module(module) ==
    IF module_filter = None THEN TRUE
    ELSE starts_with(unwrap_or_default(module), module_filter[1])

\* Mutant: every entry of the list has to match (all() for any()).
should_include_rust_module_all(rust_module_path) ==
    IF rust_module_filters = None THEN TRUE
    ELSE \A i \in 1..Len(rust_module_filters[1]) :
             starts_with(rust_module_path, rust_module_filters[1][i])

should_include_rust_module(rust_module_path) ==
    IF rust_module_filters = None THEN TRUE
    ELSE \E i \in 1..Len(rust_module_filters[1]) :
             starts_with(rust_module_path, rust_module_filters[1][i])

\* The parent name and the leaf of a key with more than one segment.
parent_of(key) ==
    LET path == split_dots(key) IN join_dots(SubSeq(path, 1, Len(path) - 1))
leaf_of(key) ==
    LET path == split_dots(key) IN path[Len(path)]

\* Mutant: a missing parent is created (entry().or_default() for get_mut()).
register_submodules_create(mods) ==
    LET nested == {k \in DOMAIN mods : Len(split_dots(k)) > 1}
        map == [p \in {parent_of(k) : k \in nested} |->
                   {leaf_of(k) : k \in {c \in nested : parent_of(c) = p}}]
    IN [k \in (DOMAIN mods) \cup (DOMAIN map) |->
           LET module == IF k \in DOMAIN mods THEN mods[k] ELSE ModuleDefault
           IN IF k \in DOMAIN map
              THEN [module EXCEPT !.submodules = @ \cup map[k]]
              ELSE module]

register_submodules(mods) ==
    LET nested == {k \in DOMAIN mods : Len(split_dots(k)) > 1}
        map == [p \in {parent_of(k) : k \in nested} |->
                   {leaf_of(k) : k \in {c \in nested : parent_of(c) = p}}]
    IN [k \in DOMAIN mods |->
           IF k \in DOMAIN map
           THEN [mods[k] EXCEPT !.submodules = @ \cup map[k]]
           ELSE mods[k]]

add_class(mods, info) ==
    [get_module(mods, info.module) EXCEPT
        ![unwrap_or_default(info.module)].class =
            Put(@, info.struct_id, ClassDefFrom(info))]

add_complex_enum(mods, info) ==
    [get_module(mods, info.module) EXCEPT
        ![unwrap_or_default(info.module)].class =
            Put(@, info.enum_id, ClassDefFrom(info))]

add_enum(mods, info) ==
    [get_module(mods, info.module) EXCEPT
        ![unwrap_or_default(info.module)].enum_ =
            Put(@, info.enum_id, EnumDefFrom(info))]

add_function(mods, info) ==
    [get_module(mods, info.module) EXCEPT
        ![unwrap_or_default(info.module)].function =
            Put(@, info.name, FunctionDefFrom(info))]

add_error(mods, info) ==
    [get_module(mods, Some(info.module)) EXCEPT
        ![info.module].error = Put(@, info.name, ErrorDefFrom(info))]

add_variable(mods, info) ==
    [get_module(mods, Some(info.module)) EXCEPT
        ![info.module].variables = Put(@, info.name, VariableDefFrom(info))]

\* The four push loops of add_methods on one ClassDef / EnumDef.
push_members(entry, info) ==
    [entry EXCEPT !.attrs = @ \o member_defs(info.attrs),
                  !.getters = @ \o member_defs(info.getters),
                  !.setters = @ \o member_defs(info.setters),
                  !.methods = @ \o method_defs(info.methods)]

\* Mutant: an iteration order that differs from one table instance to the
\* next (a hash map's for the BTreeMap's).
scan_order_unstable(mods) ==
    LET keys == SortedKeys(mods)
    IN IF run % 2 = 1 THEN keys
       ELSE [i \in 1..Len(keys) |-> keys[Len(keys) + 1 - i]]

\* The order in which add_methods visits the Modules (values_mut()).
scan_order(mods) == SortedKeys(mods)

\* Mutant: the scan does not return after the first match.
add_methods_no_return(mods, info) ==
    [k \in DOMAIN mods |->
        IF info.struct_id \in DOMAIN mods[k].class
        THEN [mods[k] EXCEPT !.class[info.struct_id] = push_members(@, info)]
        ELSE IF info.struct_id \in DOMAIN mods[k].enum_
        THEN [mods[k] EXCEPT !.enum_[info.struct_id] = push_members(@, info)]
        ELSE mods[k]]

\* Mutant: a block without a record gets one in the default Module.
add_methods_or_insert(mods, info) ==
    IF \E k \in DOMAIN mods : \/ info.struct_id \in DOMAIN mods[k].class
                              \/ info.struct_id \in DOMAIN mods[k].enum_
    THEN add_methods_no_return(mods, info)
    ELSE [get_module(mods, None) EXCEPT
            ![default_module_name].class =
                Put(@, info.struct_id,
                    push_members([name |-> "", attrs |-> <<>>,
                                  getters |-> <<>>, setters |-> <<>>,
                                  methods |-> <<>>], info))]

add_methods(mods, info) ==
    LET struct_id == info.struct_id
        keys == scan_order(mods)
        hits == {i \in 1..Len(keys) :
                    \/ struct_id \in DOMAIN mods[keys[i]].class
                    \/ struct_id \in DOMAIN mods[keys[i]].enum_}
    IN IF hits = {} THEN mods
       ELSE LET first == CHOOSE i \in hits : \A j \in hits : i <= j
                k == keys[first]
            IN IF struct_id \in DOMAIN mods[k].class
               THEN [mods EXCEPT ![k].class[struct_id] = push_members(@, info)]
               ELSE [mods EXCEPT ![k].enum_[struct_id] = push_members(@, info)]

(***************************************************************************)
(* The inventory: descriptor universes                                     *)
(***************************************************************************)
Kinds == <<"class", "complex_enum", "enum", "function", "error", "variable",
           "methods">>

Ids == {1, 2}

Member(n) == [name |-> n, r_type |-> "int"]

MethodsPayloads ==
    { [attrs |-> <<Member("x")>>, getters |-> <<Member("g")>>,
       setters |-> <<Member("s")>>,
       methods |-> << [name |-> "m1"], [name |-> "m2"] >>],
      [attrs |-> <<>>, getters |-> <<Member("h"), Member("g")>>,
       setters |-> <<>>, methods |-> <<>>] }

PyMethodsInfos(ids) ==
    { [struct_id |-> i, attrs |-> p.attrs, getters |-> p.getters,
       setters |-> p.setters, methods |-> p.methods] :
          i \in ids, p \in MethodsPayloads }

PyClassInfos(ns, origins, ids) ==
    [module : ns, rust_module_path : origins, struct_id : ids,
     pyclass_name : {"C"}, getters : {<<>>, <<Member("b")>>}]
PyComplexEnumInfos(ns, origins, ids) ==
    [module : ns, rust_module_path : origins, enum_id : ids,
     pyclass_name : {"K"}, getters : {<<>>}]
PyEnumInfos(ns, origins, ids) ==
    [module : ns, rust_module_path : origins, enum_id : ids,
     pyclass_name : {"E"}]
PyFunctionInfos(ns, origins) ==
    [module : ns, rust_module_path : origins, name : {"f"}]
PyErrorInfos(ns, origins) ==
    [module : ns, rust_module_path : origins, name : {"Err"}]
PyVariableInfos(ns, origins) ==
    [module : ns, rust_module_path : origins, name : {"v"}]

\* How many descriptors of each kind a registry holds: at most n in all.
Shapes(n) ==
    {s \in [1..7 -> 0..n] :
        s[1] + s[2] + s[3] + s[4] + s[5] + s[6] + s[7] <= n}

Registries(u, n) ==
    UNION { [class        : [1..s[1] -> u.class],
             complex_enum : [1..s[2] -> u.complex_enum],
             enum         : [1..s[3] -> u.enum],
             function     : [1..s[4] -> u.function],
             error        : [1..s[5] -> u.error],
             variable     : [1..s[6] -> u.variable],
             methods      : [1..s[7] -> u.methods]] : s \in Shapes(n) }

\* Hierarchy and identity universe: no filter is set.
MainUniverse ==
    [class        |-> PyClassInfos({None, Some(N_a_b), Some(N_a_init)},
                                   {O_x_m}, Ids),
     complex_enum |-> PyComplexEnumInfos({Some(N_a_b), Some(N_a_b_c)},
                                         {O_x_m}, {1}),
     enum         |-> PyEnumInfos({None, Some(N_a_b)}, {O_x_m}, Ids),
     function     |-> PyFunctionInfos({None, Some(N_a_b_c)}, {O_x_m}),
     error        |-> PyErrorInfos({N_a_b}, {O_x_m}),
     variable     |-> PyVariableInfos({N_a_init}, {O_x_m}),
     methods      |-> PyMethodsInfos(Ids)]

\* Namespace-filter universe: the filter's prefix law.
NamespaceUniverse ==
    LET opt == {None, Some(N_a_b), Some(N_a_b_c), Some(N_a_bc), Some(N_a_c),
                Some(N_ab)}
        req == {N_a_b, N_a_b_c, N_a_bc, N_a_c, N_ab}
    IN [class        |-> PyClassInfos(opt, {O_x_m}, {1}),
        complex_enum |-> PyComplexEnumInfos(opt, {O_x_m}, {1}),
        enum         |-> PyEnumInfos(opt, {O_x_m}, {2}),
        function     |-> PyFunctionInfos(opt, {O_x_m}),
        error        |-> PyErrorInfos(req, {O_x_m}),
        variable     |-> PyVariableInfos(req, {O_x_m}),
        methods      |-> PyMethodsInfos({1})]

\* Origin-filter universe: the filter list's any-entry law.
OriginUniverse ==
    LET org == {O_x_m, O_y_m, O_z_m}
    IN [class        |-> PyClassInfos({None}, org, {1}),
        complex_enum |-> PyComplexEnumInfos({Some(N_a_b)}, org, {1}),
        enum         |-> PyEnumInfos({None}, org, {2}),
        function     |-> PyFunctionInfos({None}, org),
        error        |-> PyErrorInfos({N_a_b}, org),
        variable     |-> PyVariableInfos({N_a_c}, org),
        methods      |-> PyMethodsInfos({1})]

(***************************************************************************)
(* Construction                                                            *)
(***************************************************************************)
from_project_root(default_name, project_root) ==
    [modules |-> <<>>, default_module_name |-> default_name,
     python_root |-> project_root, module_filter |-> None,
     rust_module_filters |-> None]

from_project_root_with_filter(default_name, project_root, filter) ==
    [from_project_root(default_name, project_root) EXCEPT
        !.module_filter = Some(filter)]

from_project_root_with_rust_filters(default_name, project_root, rust_filters) ==
    [from_project_root(default_name, project_root) EXCEPT
        !.rust_module_filters = Some(rust_filters)]

from_project_root_with_rust_filter(default_name, project_root, rust_filter) ==
    from_project_root_with_rust_filters(default_name, project_root,
                                        <<rust_filter>>)

\* The first descriptor list, from the k-th on, that build() iterates at all.
RECURSIVE Seek(_)
Seek(k) ==
    IF k > Len(Kinds) THEN "register"
    ELSE IF Len(registry[Kinds[k]]) > 0 THEN Kinds[k]
    ELSE Seek(k + 1)

\* The state in which build() starts on a fresh builder.
Start(builder, reg) ==
    /\ modules = builder.modules
    /\ default_module_name = builder.default_module_name
    /\ python_root = builder.python_root
    /\ module_filter = builder.module_filter
    /\ rust_module_filters = builder.rust_module_filters
    /\ registry \in reg
    /\ pc = Seek(1)
    /\ idx = 1
    /\ gidx = 0
    /\ files = <<>>
    /\ dirs = {}
    /\ log = <<>>
    /\ result = "none"
    /\ run = 1
    /\ prev = None

Init == Start(from_project_root(N_a, ROOT), Registries(MainUniverse, MaxDesc))

InitFilter ==
    \/ \E d \in {N_a_b, N_ab} :
          Start(from_project_root_with_filter(d, ROOT, N_a_b),
                Registries(NamespaceUniverse, MaxFilterDesc))
    \/ \E fs \in {<<>>, <<F_x, F_y>>} :
          Start(from_project_root_with_rust_filters(N_a_b, ROOT, fs),
                Registries(OriginUniverse, MaxFilterDesc))
    \/ Start(from_project_root_with_rust_filter(N_a_b, ROOT, F_x),
             Registries(OriginUniverse, MaxFilterDesc))

(***************************************************************************)
(* build()                                                                 *)
(***************************************************************************)
\* One iteration of the k-th for loop is over: the next descriptor of the
\* list, or the next list that has any.
Advance(k) ==
    /\ IF idx < Len(registry[Kinds[k]])
       THEN pc' = pc /\ idx' = idx + 1
       ELSE pc' = Seek(k + 1) /\ idx' = 1
    /\ UNCHANGED <<default_module_name, python_root, module_filter,
                   rust_module_filters, registry, gidx, files, dirs, log,
                   result, run, prev>>

build_class ==
    /\ pc = "class"
    /\ LET info == registry.class[idx]
       IN modules' = IF /\ should_include_module(info.module)
                        /\ should_include_rust_module(info.rust_module_path)
                     THEN add_class(modules, info)
                     ELSE modules
    /\ Advance(1)

build_complex_enum ==
    /\ pc = "complex_enum"
    /\ LET info == registry.complex_enum[idx]
       IN modules' = IF /\ should_include_module(info.module)
                        /\ should_include_rust_module(info.rust_module_path)
                     THEN add_complex_enum(modules, info)
                     ELSE modules
    /\ Advance(2)

build_enum ==
    /\ pc = "enum"
    /\ LET info == registry.enum[idx]
       IN modules' = IF /\ should_include_module(info.module)
                        /\ should_include_rust_module(info.rust_module_path)
                     THEN add_enum(modules, info)
                     ELSE modules
    /\ Advance(3)

build_function ==
    /\ pc = "function"
    /\ LET info == registry.function[idx]
       IN modules' = IF should_include_module(info.module)
                     THEN add_function(modules, info)
                     ELSE modules
    /\ Advance(4)

build_error ==
    /\ pc = "error"
    /\ LET info == registry.error[idx]
       IN modules' = IF should_include_module(Some(info.module))
                     THEN add_error(modules, info)
                     ELSE modules
    /\ Advance(5)

build_variable ==
    /\ pc = "variable"
    /\ LET info == registry.variable[idx]
       IN modules' = IF should_include_module(Some(info.module))
                     THEN add_variable(modules, info)
                     ELSE modules
    /\ Advance(6)

build_methods ==
    /\ pc = "methods"
    /\ modules' = add_methods(modules, registry.methods[idx])
    /\ Advance(7)

\* register_submodules(), then build() returns the StubInfo.
build_register_submodules ==
    /\ pc = "register"
    /\ modules' = register_submodules(modules)
    /\ pc' = "generate"
    /\ UNCHANGED <<default_module_name, python_root, module_filter,
                   rust_module_filters, registry, idx, gidx, files, dirs, log,
                   result, run, prev>>

(***************************************************************************)
(* generate()                                                              *)
(***************************************************************************)
\* Mutant: every Module is written as a leaf file.
dest_of_leaf_only(name, module) ==
    path_join(python_root, replace_dots(name) \o PYI)

dest_of(name, module) ==
    LET path == replace_dots(name)
    IN IF module.submodules = {}
       THEN path_join(python_root, path \o PYI)
       ELSE path_join(path_join(python_root, path), INIT_PYI)

\* What the filesystem can answer for one Module: no parent directory, a
\* failed create_dir_all (only tried when the directory is missing), a
\* failed File::create, a failed write!, or success.
io_outcomes(dir) ==
    IF dir = None THEN {"no_parent"}
    ELSE (IF dir[1] \in dirs THEN {} ELSE {"mkdir_failed"})
            \cup {"create_failed", "write_failed", "ok"}

\* Mutant: an I/O error is dropped instead of returned.
continues_after_error(outcome) == TRUE

\* Whether the loop goes on to the next Module after this outcome.
continues(outcome) == outcome = "ok"

files_after(outcome, dest, name) ==
    IF outcome = "ok" THEN Put(files, dest, [module |-> name, complete |-> TRUE])
    ELSE IF outcome = "write_failed"
    THEN Put(files, dest, [module |-> name, complete |-> FALSE])
    ELSE files

generate_module ==
    /\ pc = "generate"
    /\ gidx < Len(SortedKeys(modules))
    /\ LET name == SortedKeys(modules)[gidx + 1]
           dest == dest_of(name, modules[name])
           dir == path_parent(dest)
       IN \E outcome \in io_outcomes(dir) :
            /\ files' = files_after(outcome, dest, name)
            /\ dirs' = IF outcome \in {"create_failed", "write_failed", "ok"}
                       THEN dirs \cup dir_and_ancestors(dir[1])
                       ELSE dirs
            /\ log' = IF outcome = "ok"
                      THEN Append(log, [name |-> name, dest |-> dest])
                      ELSE log
            /\ IF continues(outcome)
               THEN gidx' = gidx + 1 /\ pc' = pc /\ result' = result
               ELSE gidx' = gidx /\ pc' = "done" /\ result' = "Err"
    /\ UNCHANGED <<modules, default_module_name, python_root, module_filter,
                   rust_module_filters, registry, idx, run, prev>>

generate_return ==
    /\ pc = "generate"
    /\ gidx = Len(SortedKeys(modules))
    /\ pc' = "done"
    /\ result' = "Ok"
    /\ UNCHANGED <<modules, default_module_name, python_root, module_filter,
                   rust_module_filters, registry, idx, gidx, files, dirs, log,
                   run, prev>>

\* The caller builds a second StubInfo over the same inventory with the same
\* constructor arguments (and so the same filters).
rerun ==
    /\ pc = "generate"
    /\ gidx = 0
    /\ run = 1
    /\ LET builder == from_project_root(default_module_name, python_root)
       IN modules' = builder.modules
    /\ prev' = Some(modules)
    /\ run' = run + 1
    /\ pc' = Seek(1)
    /\ idx' = 1
    /\ UNCHANGED <<default_module_name, python_root, module_filter,
                   rust_module_filters, registry, gidx, files, dirs, log,
                   result>>

Build ==
    \/ build_class
    \/ build_complex_enum
    \/ build_enum
    \/ build_function
    \/ build_error
    \/ build_variable
    \/ build_methods
    \/ build_register_submodules

Next ==
    \/ Build
    \/ generate_module
    \/ generate_return

\* Two aggregation runs, one after the other.
NextRuns ==
    \/ Build
    \/ rerun

Spec == Init /\ [][Next]_vars
SpecFilter == InitFilter /\ [][Next]_vars
InitRuns == Init \/ InitFilter
SpecRuns == InitRuns /\ [][NextRuns]_vars

(***************************************************************************)
(* Properties                                                              *)
(***************************************************************************)
\* build() has returned the StubInfo.
Built == pc \in {"generate", "done"}

\* The Modules whose class map or enum map has the identity as a key.
HoldersOf(mods, id) ==
    {k \in DOMAIN mods : id \in DOMAIN mods[k].class \/ id \in DOMAIN mods[k].enum_}

\* C1: after build(), a type identity is a key of the class map or enum map
\* of at most one Module, whatever the registry holds.
C1_IdentityInAtMostOneModule ==
    Built => \A id \in Ids : Cardinality(HoldersOf(modules, id)) <= 1

\* c names a direct child of k: k, a dot, and one more segment.
IsChildOf(c, k) ==
    /\ Len(c) >= Len(k) + 1
    /\ SubSeq(c, 1, Len(k)) = k
    /\ c[Len(k) + 1] = "."
    /\ \A i \in (Len(k) + 2)..Len(c) : c[i] # "."

LastSegment(c, k) == SubSeq(c, Len(k) + 2, Len(c))

\* C6: register_submodules creates no Module, and leaves every Module's
\* submodules equal to the last segments of the keys that are its direct
\* children; a child whose parent is no key is linked nowhere.
C6_RegisterSubmodules ==
    [][pc = "register" =>
          /\ DOMAIN modules' = DOMAIN modules
          /\ \A k \in DOMAIN modules' :
                modules'[k].submodules =
                    {LastSegment(c, k) :
                        c \in {c \in DOMAIN modules : IsChildOf(c, k)}}]_vars

C6_Witness ==
    /\ pc = "generate"
    /\ N_a_b \in DOMAIN modules
    /\ N_a_b_c \in DOMAIN modules
    /\ N_a \notin DOMAIN modules
    /\ modules[N_a_b].submodules = {<<"c">>}

\* <root>/<name with every dot a slash>.pyi, or .../__init__.pyi.
ExpectedDest(name, has_submodules) ==
    python_root \o <<"/">>
        \o [i \in 1..Len(name) |-> IF name[i] = "." THEN "/" ELSE name[i]]
        \o (IF has_submodules THEN <<"/">> \o INIT_PYI ELSE PYI)

\* C7: a Module without submodules is written to <root>/<path>.pyi, one with
\* submodules to <root>/<path>/__init__.pyi; the same Module moves from the
\* first to the second when a submodule is added.
C7_DestinationPath ==
    /\ \A i \in 1..Len(log) :
          log[i].dest = ExpectedDest(log[i].name,
                                     modules[log[i].name].submodules # {})
    /\ \A k \in DOMAIN modules :
          /\ dest_of(k, [modules[k] EXCEPT !.submodules = {}])
                = ExpectedDest(k, FALSE)
          /\ dest_of(k, [modules[k] EXCEPT !.submodules = @ \cup {<<"c">>}])
                = ExpectedDest(k, TRUE)

C7_Witness ==
    \E i, j \in 1..Len(log) :
        /\ modules[log[i].name].submodules = {}
        /\ modules[log[j].name].submodules # {}
        /\ log[i].dest \in DOMAIN files
        /\ log[j].dest \in DOMAIN files

LogNames == {log[i].name : i \in 1..Len(log)}

C8_State ==
    /\ \A i, j \in 1..Len(log) : i < j => StrLess(log[i].name, log[j].name)
    /\ \A n \in LogNames : \A k \in DOMAIN modules :
          StrLess(k, n) => k \in LogNames
    /\ \A i \in 1..Len(log) : log[i].dest \in DOMAIN files
    /\ result = "Ok" => LogNames = DOMAIN modules
    /\ result = "Err" =>
          /\ pc = "done"
          /\ LogNames # DOMAIN modules
          /\ \A p \in DOMAIN files :
                \/ files[p].module \in LogNames
                \/ /\ ~files[p].complete
                   /\ \A k \in DOMAIN modules \ LogNames :
                         k = files[p].module \/ StrLess(files[p].module, k)

\* C8: generate() writes the Modules one after another in key order; the
\* first failure ends it with an error, nothing later is written, what was
\* written stays on disk, and Ok means every Module was written.
C8_SequentialEmission ==
    /\ []C8_State
    /\ [][/\ \A p \in DOMAIN files : p \in DOMAIN files'
          /\ result = "Err" => UNCHANGED <<files, log, result>>
          /\ Len(log') <= Len(log) + 1]_vars

C8_Witness ==
    /\ result = "Err"
    /\ Len(log) >= 1
    /\ Cardinality(DOMAIN modules) > Len(log) + 1

\* C10: no two Modules of a built table are written to the same path.
C10_DistinctDestinations ==
    Built => \A k1, k2 \in DOMAIN modules :
                k1 # k2 => dest_of(k1, modules[k1]) # dest_of(k2, modules[k2])

\* The MemberDefs and MethodDefs a methods-block contributes, in its order.
MembersOf(ms) == [i \in 1..Len(ms) |-> [name |-> ms[i].name, type |-> ms[i].r_type]]
MethodsOf(ms) == [i \in 1..Len(ms) |-> [name |-> ms[i].name]]

MergedRecord(old, info) ==
    [name |-> old.name,
     attrs |-> old.attrs \o MembersOf(info.attrs),
     getters |-> old.getters \o MembersOf(info.getters),
     setters |-> old.setters \o MembersOf(info.setters),
     methods |-> old.methods \o MethodsOf(info.methods)]

\* C2: add_methods appends the block's attrs, getters, setters and methods,
\* in the block's order and after what is there, to the record keyed by the
\* block's identity in the first Module, in key order, that has one; every
\* other record of every Module stays as it was.
C2_MethodsMergedOnceIntoFirst ==
    [][pc = "methods" =>
          LET info == registry.methods[idx]
              id == info.struct_id
              holders == HoldersOf(modules, id)
          IN holders # {} =>
               \E first \in holders :
                 /\ \A h \in holders \ {first} : StrLess(first, h)
                 /\ DOMAIN modules' = DOMAIN modules
                 /\ \A k \in DOMAIN modules :
                      /\ \A f \in {"name", "default_module_name", "function",
                                   "error", "variables", "submodules"} :
                            modules'[k][f] = modules[k][f]
                      /\ \A m \in {"class", "enum_"} :
                            /\ DOMAIN modules'[k][m] = DOMAIN modules[k][m]
                            /\ \A i \in DOMAIN modules[k][m] :
                                 modules'[k][m][i] =
                                    IF /\ k = first
                                       /\ i = id
                                       /\ m = (IF id \in DOMAIN modules[k].class
                                               THEN "class" ELSE "enum_")
                                    THEN MergedRecord(modules[k][m][i], info)
                                    ELSE modules[k][m][i]]_vars

C2_Witness ==
    /\ Built
    /\ \E k1, k2 \in DOMAIN modules : \E id \in Ids :
          /\ StrLess(k1, k2)
          /\ id \in DOMAIN modules[k1].class
          /\ id \in DOMAIN modules[k2].class
          /\ modules[k1].class[id].getters =
                MembersOf(<<Member("b"), Member("h"), Member("g")>>)
          /\ modules[k2].class[id].getters = <<>>

\* C3: a methods-block whose identity no Module holds changes nothing in the
\* table and raises no error; build() goes on and returns.
C3_AbsentIdentityIsInert ==
    /\ [][(/\ pc = "methods"
           /\ HoldersOf(modules, registry.methods[idx].struct_id) = {})
          => /\ modules' = modules
             /\ result' = "none"
             /\ pc' \in {"methods", "register"}]_vars
    /\ [](~Built => (result = "none" /\ ENABLED Build))

C3_Witness ==
    /\ Built
    /\ modules # <<>>
    /\ \E i \in 1..Len(registry.methods) :
          HoldersOf(modules, registry.methods[i].struct_id) = {}

\* p is s cut after some number of characters.
IsLiteralPrefix(p, s) == \E n \in 0..Len(s) : SubSeq(s, 1, n) = p

NonMethodKinds ==
    {"class", "complex_enum", "enum", "function", "error", "variable"}
TypeKinds == {"class", "complex_enum", "enum"}

\* The namespace a descriptor goes to, and what build() hands the filter.
EffectiveNamespace(kind, d) ==
    IF kind \in {"error", "variable"} THEN d.module
    ELSE IF d.module = None THEN default_module_name ELSE d.module[1]
ModuleArg(kind, d) ==
    IF kind \in {"error", "variable"} THEN Some(d.module) ELSE d.module

NamespacePasses(kind, d) ==
    \/ module_filter = None
    \/ IsLiteralPrefix(module_filter[1], EffectiveNamespace(kind, d))

OriginPasses(d) ==
    \/ rust_module_filters = None
    \/ \E i \in 1..Len(rust_module_filters[1]) :
          IsLiteralPrefix(rust_module_filters[1][i], d.rust_module_path)

\* C4: without a namespace filter every descriptor passes; with one, a
\* descriptor passes iff its effective namespace starts with the filter,
\* character by character ("a.b" takes "a.b", "a.b.c", "a.bc", not "a.c",
\* "ab"); a descriptor that does not pass leaves the table as it was.
C4_NamespaceFilter ==
    /\ [](/\ \A kind \in NonMethodKinds : \A i \in 1..Len(registry[kind]) :
               should_include_module(ModuleArg(kind, registry[kind][i]))
                  = NamespacePasses(kind, registry[kind][i])
          /\ module_filter = None =>
               \A n \in {None, Some(N_a_b), Some(N_a_c), Some(N_ab)} :
                   should_include_module(n)
          /\ module_filter = Some(N_a_b) =>
               /\ should_include_module(Some(N_a_b))
               /\ should_include_module(Some(N_a_b_c))
               /\ should_include_module(Some(N_a_bc))
               /\ ~should_include_module(Some(N_a_c))
               /\ ~should_include_module(Some(N_ab)))
    /\ [][(/\ pc \in NonMethodKinds
           /\ ~NamespacePasses(pc, registry[pc][idx]))
          => modules' = modules]_vars

C4_Witness ==
    /\ Built
    /\ module_filter = Some(N_a_b)
    /\ DOMAIN modules = {N_a_bc}
    /\ \E kind \in NonMethodKinds : \E i \in 1..Len(registry[kind]) :
          EffectiveNamespace(kind, registry[kind][i]) \in {N_a_c, N_ab}

\* The table holds the entry the descriptor stands for.
Holds(kind, d, mods) ==
    LET n == EffectiveNamespace(kind, d)
    IN /\ n \in DOMAIN mods
       /\ CASE kind = "class" ->
                 /\ d.struct_id \in DOMAIN mods[n].class
                 /\ mods[n].class[d.struct_id].name = d.pyclass_name
            [] kind = "complex_enum" ->
                 /\ d.enum_id \in DOMAIN mods[n].class
                 /\ mods[n].class[d.enum_id].name = d.pyclass_name
            [] kind = "enum" ->
                 /\ d.enum_id \in DOMAIN mods[n].enum_
                 /\ mods[n].enum_[d.enum_id].name = d.pyclass_name
            [] kind = "function" -> d.name \in DOMAIN mods[n].function
            [] kind = "error" -> d.name \in DOMAIN mods[n].error
            [] kind = "variable" -> d.name \in DOMAIN mods[n].variables

\* C5 as stated: with an origin-filter list, every descriptor but a
\* methods-block is inserted iff it passes the namespace filter and its
\* origin path starts with an entry of the list, and otherwise contributes
\* nothing.
C5_OriginFilterOnEveryKind ==
    [][(pc \in NonMethodKinds /\ rust_module_filters # None) =>
          LET d == registry[pc][idx]
          IN IF NamespacePasses(pc, d) /\ OriginPasses(d)
             THEN Holds(pc, d, modules')
             ELSE modules' = modules]_vars

\* C5 amended: with an origin-filter list, a class, complex-enum or
\* plain-enum descriptor is inserted iff it passes the namespace filter and
\* its origin path starts with an entry of the list, and otherwise
\* contributes nothing; a function, error or variable descriptor is
\* inserted iff it passes the namespace filter, whatever its origin path.
C5_OriginFilterOnTypes ==
    [][(pc \in NonMethodKinds /\ rust_module_filters # None) =>
          LET d == registry[pc][idx]
          IN IF /\ NamespacePasses(pc, d)
                /\ pc \in TypeKinds => OriginPasses(d)
             THEN Holds(pc, d, modules')
             ELSE modules' = modules]_vars

C5_Witness ==
    /\ Built
    /\ rust_module_filters = Some(<<F_x, F_y>>)
    /\ \E i \in 1..Len(registry.function) :
          /\ ~OriginPasses(registry.function[i])
          /\ Holds("function", registry.function[i], modules)
    /\ \E kind \in TypeKinds : \E i \in 1..Len(registry[kind]) :
          /\ ~OriginPasses(registry[kind][i])
          /\ ~Holds(kind, registry[kind][i], modules)

====
